---- MODULE Spec2Model ----
(***************************************************************************)
(* Model of app.py: the survey-analysis chat service.                      *)
(*                                                                         *)
(* Text is modelled as a sequence of Unicode code points (a Python str),   *)
(* so that the fuzzy matcher, the regular expressions and the substring    *)
(* tests are computed on the characters, as the code computes them.        *)
(* Optional values: None is the empty sequence; an optional number n is    *)
(* <<n>>.  A day count is kept in halves (twice its value), because        *)
(* parse_kadou_nissu yields the midpoint (start + end) / 2 of a range.     *)
(***************************************************************************)
EXTENDS Integers, Sequences, FiniteSets, TLC

VARIABLES
    df,            \* the module-level DataFrame: [columns, rows]
    pc,            \* position of the request being served
    user_text,     \* ask / parse_conditions: the question text
    tokens,        \* parse_conditions: user_text.split()
    idx,           \* parse_conditions: number of tokens the forward loop consumed
    col_in_focus,  \* parse_conditions: the column waiting for a value, or None
    filter_dict,   \* insertion-ordered dict, as a sequence of [col, op, val]
    target_col,    \* parse_conditions: the column to chart, or None
    filtered,      \* value of apply_filters: [raised, columns, rows]
    response,      \* the JSON answer of /ask, or None
    threshold,     \* find_best_column: the threshold argument <<num, den>>
    best_col       \* find_best_column: the value returned

vars == <<df, pc, user_text, tokens, idx, col_in_focus, filter_dict,
          target_col, filtered, response, threshold, best_col>>

None == <<>>

-----------------------------------------------------------------------------
(* Bounds of the model.                                                    *)

MaxWords == 3      \* fragments a question is assembled from
MaxRows == 6       \* rows of the loaded dataset (a prefix of RowPool)
MaxConds == 1      \* conditions of a filter_dict handed to apply_filters directly

-----------------------------------------------------------------------------
(* Characters and strings.                                                 *)

Min(S) == CHOOSE x \in S : \A y \in S : x <= y
Max(S) == CHOOSE x \in S : \A y \in S : x >= y

\* \d of the re module on the characters the model uses: ASCII and full-width digits
IsDigit(c) == c \in 48..57 \/ c \in 65296..65305
DigitVal(c) == IF c \in 48..57 THEN c - 48 ELSE c - 65296

\* \s of the re module, and the separators of str.split() and str.strip()
IsSpace(c) ==
    \/ c \in {9, 10, 11, 12, 13, 28, 29, 30, 31, 32, 133, 160, 5760}
    \/ c \in 8192..8202
    \/ c \in {8232, 8233, 8239, 8287, 12288}

\* str.lower() on Latin letters (ASCII and full-width); the other characters
\* of the model have no case
Lower(c) ==
    IF c \in 65..90 \/ c \in 65313..65338 THEN c + 32 ELSE c

RECURSIVE FilterChars(_, _)
\* s without the characters of the set drop
FilterChars(s, drop) ==
    IF s = <<>> THEN <<>>
    ELSE IF Head(s) \in drop THEN FilterChars(Tail(s), drop)
    ELSE <<Head(s)>> \o FilterChars(Tail(s), drop)

\* s[i:] starts with p (i is a 1-based position)
StartsWithAt(s, i, p) ==
    /\ i + Len(p) - 1 <= Len(s)
    /\ \A k \in 1..Len(p) : s[i + k - 1] = p[k]

\* p occurs in s: Series.str.contains(p) for a pattern p without regular
\* expression metacharacters
Contains(s, p) == \E i \in 1..(Len(s) + 1) : StartsWithAt(s, i, p)

RECURSIVE ReplaceAll(_, _, _)
\* s[i:].replace(p, ""): non-overlapping occurrences, left to right
ReplaceAll(s, i, p) ==
    IF i > Len(s) THEN <<>>
    ELSE IF StartsWithAt(s, i, p) THEN ReplaceAll(s, i + Len(p), p)
    ELSE <<s[i]>> \o ReplaceAll(s, i + 1, p)

RECURSIVE DigitsEnd(_, _)
\* the last position of the run of digits that starts at position i
DigitsEnd(s, i) ==
    IF i < Len(s) /\ IsDigit(s[i + 1]) THEN DigitsEnd(s, i + 1) ELSE i

RECURSIVE ToNumber(_)
\* float(digits), as a natural number
ToNumber(d) ==
    IF d = <<>> THEN 0
    ELSE 10 * ToNumber(SubSeq(d, 1, Len(d) - 1)) + DigitVal(d[Len(d)])

\* The positions where r"(\d+)" + suffix matches when tried from position i
\* (greedy \d+ takes the whole run; backtracking gives a shorter run only if
\* the suffix begins with a digit, which no suffix of the code does).
MatchesAt(s, i, suffix) ==
    /\ i <= Len(s)
    /\ IsDigit(s[i])
    /\ StartsWithAt(s, DigitsEnd(s, i) + 1, suffix)

\* re.search(r"(\d+)" + suffix, s): None, or <<group(1)>> of the leftmost match
Search(s, suffix) ==
    LET hits == {i \in 1..Len(s) : MatchesAt(s, i, suffix)}
    IN  IF hits = {} THEN None
        ELSE LET i == Min(hits) IN <<SubSeq(s, i, DigitsEnd(s, i))>>

\* re.match(r"(\d+)" + suffix, s): anchored at the start of s
Match(s, suffix) ==
    IF MatchesAt(s, 1, suffix) THEN <<SubSeq(s, 1, DigitsEnd(s, 1))>> ELSE None

\* re.match(r"(\d+)～(\d+)" + suffix, s): None, or <<group(1), group(2)>>
MatchRange(s, suffix) ==
    IF ~MatchesAt(s, 1, <<65374>>) THEN None
    ELSE LET e1 == DigitsEnd(s, 1)
         IN  IF ~MatchesAt(s, e1 + 2, suffix) THEN None
             ELSE <<SubSeq(s, 1, e1), SubSeq(s, e1 + 2, DigitsEnd(s, e1 + 2))>>

-----------------------------------------------------------------------------
(* difflib.SequenceMatcher(None, a, b).ratio(), for strings shorter than   *)
(* 200 characters (no autojunk) and no junk predicate.                     *)

RECURSIVE RunLen(_, _, _, _, _, _)
\* length of the common run a[i:ahi], b[j:bhi] start with (0-based i, j)
RunLen(a, b, i, j, ahi, bhi) ==
    IF i < ahi /\ j < bhi /\ a[i + 1] = b[j + 1]
    THEN 1 + RunLen(a, b, i + 1, j + 1, ahi, bhi)
    ELSE 0

\* <<i, j, k>>: the longest matching block of a[alo:ahi] and b[blo:bhi]; of
\* the longest, the one starting earliest in a, and of those, earliest in b
find_longest_match(a, b, alo, ahi, blo, bhi) ==
    LET K == [i \in alo..(ahi - 1) |-> [j \in blo..(bhi - 1) |->
                 RunLen(a, b, i, j, ahi, bhi)]]
        sizes == {K[i][j] : i \in alo..(ahi - 1), j \in blo..(bhi - 1)}
        k == IF sizes = {} THEN 0 ELSE Max(sizes)
    IN  IF k = 0 THEN <<alo, blo, 0>>
        ELSE LET i == Min({x \in alo..(ahi - 1) :
                             \E y \in blo..(bhi - 1) : K[x][y] = k})
                 j == Min({y \in blo..(bhi - 1) : K[i][y] = k})
             IN  <<i, j, k>>

RECURSIVE MatchedChars(_, _, _, _, _, _)
\* sum of the sizes of get_matching_blocks(): the longest block, then the
\* same to its left and to its right
MatchedChars(a, b, alo, ahi, blo, bhi) ==
    LET m == find_longest_match(a, b, alo, ahi, blo, bhi)
        i == m[1]
        j == m[2]
        k == m[3]
    IN  IF k = 0 THEN 0
        ELSE k
             + (IF alo < i /\ blo < j
                THEN MatchedChars(a, b, alo, i, blo, j) ELSE 0)
             + (IF i + k < ahi /\ j + k < bhi
                THEN MatchedChars(a, b, i + k, ahi, j + k, bhi) ELSE 0)

\* ratio(): 2.0 * matches / (len(a) + len(b)), and 1.0 for two empty
\* strings; the fraction <<numerator, denominator>>
Ratio(a, b) ==
    IF Len(a) + Len(b) = 0 THEN <<1, 1>>
    ELSE <<2 * MatchedChars(a, b, 0, Len(a), 0, Len(b)), Len(a) + Len(b)>>

\* comparison of two fractions with positive denominators
Less(x, y) == x[1] * y[2] < y[1] * x[2]

-----------------------------------------------------------------------------
(* The dataset: the demo DataFrame of the module, and the derived columns. *)

ColAnzen == <<23433, 20840, 35013, 20633, 12497, 12483, 12465, 12540, 12472>>  \* "安全装備パッケージ"
ColNidai == <<33655, 21488, 24418, 29366>>                                      \* "荷台形状"
ColKadouNissu == <<31292, 20685, 26085, 25968>>                                 \* "稼働日数"
ColKadouJikan == <<31292, 20685, 26178, 38291>>                                 \* "稼働時間"
ColKyuukei == <<20241, 25001, 26178, 38291>>                                    \* "休憩時間"
ColNenpi == <<29123, 36027, 40, 107, 109, 47, 76, 41>>                          \* "燃費(km/L)"
ColKadouNissuNum == <<31292, 20685, 26085, 25968, 95, 110, 117, 109>>           \* "稼働日数_num"
ColKadouJikanRange == <<31292, 20685, 26178, 38291, 95, 114, 97, 110, 103, 101>> \* "稼働時間_range"

\* the columns of the file, in declaration order
RawColumns == <<ColAnzen, ColNidai, ColKadouNissu, ColKadouJikan, ColKyuukei, ColNenpi>>

\* a cell the CSV leaves empty: a float NaN, which is no str
NaN == <<-1>>

\* Rows a dataset is drawn from, each in the order of RawColumns: the five
\* rows of the demo data, then rows a CSV file may hold.
RowPool == <<
    \* "STANDARD", "ミキサ", "5日", "4～8時間", "1～3時間", "10～15"
    << <<83, 84, 65, 78, 68, 65, 82, 68>>, <<12511, 12461, 12469>>, <<53, 26085>>,
       <<52, 65374, 56, 26178, 38291>>, <<49, 65374, 51, 26178, 38291>>,
       <<49, 48, 65374, 49, 53>> >>,
    \* "PREMIUM", "ダンプ", "2日以下", "8～12時間", "5時間以上", "20以上"
    << <<80, 82, 69, 77, 73, 85, 77>>, <<12480, 12531, 12503>>, <<50, 26085, 20197, 19979>>,
       <<56, 65374, 49, 50, 26178, 38291>>, <<53, 26178, 38291, 20197, 19978>>,
       <<50, 48, 20197, 19978>> >>,
    \* "ADVANCE", "温度管理車", "7日", "12時間以上", "1時間未満", "15～20"
    << <<65, 68, 86, 65, 78, 67, 69>>, <<28201, 24230, 31649, 29702, 36554>>, <<55, 26085>>,
       <<49, 50, 26178, 38291, 20197, 19978>>, <<49, 26178, 38291, 26410, 28288>>,
       <<49, 53, 65374, 50, 48>> >>,
    \* "BASIC", "バン/ウィング", "3～4日", "8～12時間", "3～5時間", "5～10"
    << <<66, 65, 83, 73, 67>>, <<12496, 12531, 47, 12454, 12451, 12531, 12464>>,
       <<51, 65374, 52, 26085>>, <<56, 65374, 49, 50, 26178, 38291>>,
       <<51, 65374, 53, 26178, 38291>>, <<53, 65374, 49, 48>> >>,
    \* "PREMIUM", "ミキサ", "6日", "4時間未満", "3～5時間", "10～15"
    << <<80, 82, 69, 77, 73, 85, 77>>, <<12511, 12461, 12469>>, <<54, 26085>>,
       <<52, 26178, 38291, 26410, 28288>>, <<51, 65374, 53, 26178, 38291>>,
       <<49, 48, 65374, 49, 53>> >>,
    \* "BASIC", "ダンプ", (empty cell), "不明", "不明", "不明"
    << <<66, 65, 83, 73, 67>>, <<12480, 12531, 12503>>, NaN,
       <<19981, 26126>>, <<19981, 26126>>, <<19981, 26126>> >>,
    \* "STANDARD", "ミキサ", "1日", "2時間未満", "1時間未満", "5～10"
    << <<83, 84, 65, 78, 68, 65, 82, 68>>, <<12511, 12461, 12469>>, <<49, 26085>>,
       <<50, 26178, 38291, 26410, 28288>>, <<49, 26178, 38291, 26410, 28288>>,
       <<53, 65374, 49, 48>> >>
>>

\* isinstance(s, str)
IsStr(s) == s # NaN

\* the day count of a cell in halves, or None
parse_kadou_nissu(s) ==
    IF ~IsStr(s) THEN None
    ELSE LET m_le == Match(s, <<26085, 20197, 19979>>)       \* r"(\d+)日以下"
             m_range == MatchRange(s, <<26085>>)             \* r"(\d+)～(\d+)日"
             m_single == Match(s, <<26085>>)                 \* r"(\d+)日"
         IN  IF m_le # None THEN <<2 * ToNumber(m_le[1])>>
             ELSE IF m_range # None
                  THEN <<ToNumber(m_range[1]) + ToNumber(m_range[2])>>
             ELSE IF m_single # None THEN <<2 * ToNumber(m_single[1])>>
             ELSE None

\* the (low, high) range of hours of a cell; an absent bound is None
parse_kadou_jikan(s) ==
    IF ~IsStr(s) THEN <<None, None>>
    ELSE LET m_range == MatchRange(s, <<26178, 38291>>)              \* r"(\d+)～(\d+)時間"
             m_ge == Match(s, <<26178, 38291, 20197, 19978>>)        \* r"(\d+)時間以上"
             m_le == Match(s, <<26178, 38291, 26410, 28288>>)        \* r"(\d+)時間未満"
         IN  IF m_range # None
             THEN << <<ToNumber(m_range[1])>>, <<ToNumber(m_range[2])>> >>
             ELSE IF m_ge # None THEN << <<ToNumber(m_ge[1])>>, None >>
             ELSE IF m_le # None THEN << None, <<ToNumber(m_le[1])>> >>
             ELSE <<None, None>>

\* df.columns once the module is loaded: the file's columns and the two
\* derived ones
Columns == RawColumns \o <<ColKadouNissuNum, ColKadouJikanRange>>

\* one row of the DataFrame: its cells in the order of Columns
LoadRow(raw) == raw \o <<parse_kadou_nissu(raw[3]), parse_kadou_jikan(raw[4])>>

\* the DataFrame of the module after import, for a file of n rows
LoadData(n) ==
    [columns |-> Columns,
     rows |-> [k \in 1..n |-> LoadRow(RowPool[k])]]

-----------------------------------------------------------------------------
(* Fuzzy matching of a text against the column names.                      *)

normalize_str(s) ==
    LET lowered == [k \in 1..Len(s) |-> Lower(s[k])]
    IN  FilterChars(lowered, {c \in {lowered[k] : k \in 1..Len(lowered)} :
                                 c \in {40, 41, 65288, 65289} \/ IsSpace(c)})

calc_similarity(a, b) == Ratio(normalize_str(a), normalize_str(b))

RECURSIVE BestLoopLastWins(_, _, _, _)
\* BestLoop with "score >= best_score" for "score > best_score"
BestLoopLastWins(text, k, best_score, col) ==
    IF k > Len(Columns) THEN <<best_score, col>>
    ELSE LET score == calc_similarity(text, Columns[k])
         IN  IF ~Less(score, best_score)
             THEN BestLoopLastWins(text, k + 1, score, Columns[k])
             ELSE BestLoopLastWins(text, k + 1, best_score, col)

RECURSIVE BestLoop(_, _, _, _)
\* the loop of find_best_column from column k on: <<best_score, best_col>>
BestLoop(text, k, best_score, col) ==
    IF k > Len(Columns) THEN <<best_score, col>>
    ELSE LET score == calc_similarity(text, Columns[k])
         IN  IF Less(best_score, score)
             THEN BestLoop(text, k + 1, score, Columns[k])
             ELSE BestLoop(text, k + 1, best_score, col)

find_best_column(text, thr) ==
    LET best == BestLoop(text, 1, <<0, 1>>, None)
    IN  IF Less(best[1], thr) THEN None ELSE best[2]

\* the default of the threshold parameter: 0.4
DefaultThreshold == <<4, 10>>

-----------------------------------------------------------------------------
(* parse_conditions: the text before the token loops.                      *)

RECURSIVE DropSpaces(_)
\* s without its leading white space
DropSpaces(s) ==
    IF s # <<>> /\ IsSpace(Head(s)) THEN DropSpaces(Tail(s)) ELSE s

RECURSIVE Collapse(_)
\* re.sub(r"\s+", " ", s)
Collapse(s) ==
    IF s = <<>> THEN <<>>
    ELSE IF IsSpace(Head(s)) THEN <<32>> \o Collapse(DropSpaces(s))
    ELSE <<Head(s)>> \o Collapse(Tail(s))

RECURSIVE DropTrailingSpaces(_)
DropTrailingSpaces(s) ==
    IF s # <<>> /\ IsSpace(s[Len(s)])
    THEN DropTrailingSpaces(SubSeq(s, 1, Len(s) - 1)) ELSE s

\* s.strip()
Strip(s) == DropTrailingSpaces(DropSpaces(s))

RECURSIVE WordEnd(_, _)
\* the last position of the run of non-space characters that starts at i
WordEnd(s, i) ==
    IF i < Len(s) /\ ~IsSpace(s[i + 1]) THEN WordEnd(s, i + 1) ELSE i

RECURSIVE Split(_)
\* s.split(): the maximal runs of non-space characters
Split(s) ==
    LET t == DropSpaces(s)
    IN  IF t = <<>> THEN <<>>
        ELSE <<SubSeq(t, 1, WordEnd(t, 1))>>
             \o Split(SubSeq(t, WordEnd(t, 1) + 1, Len(t)))

\* the characters of r"[のでをにはが]"
Particles == {12398, 12391, 12434, 12395, 12399, 12364}

\* lines 154-157: the filler phrases removed, the particles turned into
\* spaces, the white space collapsed and stripped
Preprocess(text) ==
    LET t1 == ReplaceAll(text, 1, <<12398, 12464, 12521, 12501, 12434, 20316, 25104>>)  \* "のグラフを作成"
        t2 == ReplaceAll(t1, 1, <<12398, 12464, 12521, 12501>>)                        \* "のグラフ"
        t3 == [k \in 1..Len(t2) |-> IF t2[k] \in Particles THEN 32 ELSE t2[k]]
    IN  Strip(Collapse(t3))

\* line 172
Tokenize(text) == Split(Preprocess(text))

-----------------------------------------------------------------------------
(* Questions of the model: up to MaxWords fragments, concatenated.         *)

Fragments == {
    <<31292, 20685, 26085, 25968, 12364>>,           \* "稼働日数が"
    <<53, 26085, 20197, 19978, 12398>>,              \* "5日以上の"
    <<50, 26085, 20197, 19979, 32>>,                 \* "2日以下 "
    <<33655, 21488, 24418, 29366, 12398>>,           \* "荷台形状の"
    <<12511, 12461, 12469, 12391>>,                  \* "ミキサで"
    <<31292, 20685, 26178, 38291, 12364>>,           \* "稼働時間が"
    <<56, 26178, 38291, 20197, 19978, 32>>,          \* "8時間以上 "
    <<49, 48, 48, 26178, 38291, 20197, 19978, 32>>,  \* "100時間以上 "
    <<120, 121, 122, 49, 50, 51, 32>>,               \* "xyz123 "
    <<49, 26085, 56, 26178, 38291, 20197, 19978, 32>>,   \* "1日8時間以上 "
    <<49, 48, 48, 26178, 38291, 20197, 19979, 32>>,      \* "100時間以下 "
    <<32004, 56, 26178, 38291, 12367, 12425, 12356, 32>>,  \* "約8時間くらい "
    <<23433, 20840, 35013, 20633, 12497, 12483, 12465, 12540, 12472,
      12398, 12464, 12521, 12501, 12434, 20316, 25104>>  \* "安全装備パッケージのグラフを作成"
}

RECURSIVE TextsOf(_)
\* the concatenations of exactly n fragments
TextsOf(n) ==
    IF n = 0 THEN {<<>>}
    ELSE {t \o f : t \in TextsOf(n - 1), f \in Fragments}

Questions == UNION {TextsOf(n) : n \in 0..MaxWords}

\* lines 401 and 154-172 on every question of the model: the text stripped,
\* and the tokens parse_conditions splits it into (tabulated: both are pure)
TokensOf == [q \in Questions |-> Tokenize(Strip(q))]

\* every token a question of the model splits into
TokenUniverse ==
    UNION {{TokensOf[q][k] : k \in 1..Len(TokensOf[q])} : q \in Questions}

\* find_best_column(t) of lines 176 and 226, tabulated over the tokens of the
\* model (the function is pure: its value depends on t and df.columns only)
ColumnOfToken == [t \in TokenUniverse |-> find_best_column(t, DefaultThreshold)]

-----------------------------------------------------------------------------
(* parse_conditions: the token loops.                                      *)

\* lines 181-222: the condition <<op, val>> a value token t stands for
ConditionOf(t) ==
    LET m_ge_d == Search(t, <<26085, 20197, 19978>>)         \* r"(\d+)日以上"
        m_le_d == Search(t, <<26085, 20197, 19979>>)         \* r"(\d+)日以下"
        m_eq_d == Search(t, <<26085>>)                       \* r"(\d+)日"
        m_ge_h == Search(t, <<26178, 38291, 20197, 19978>>)  \* r"(\d+)時間以上"
        m_le_h == Search(t, <<26178, 38291, 20197, 19979>>)  \* r"(\d+)時間以下"
        m_eq_h == Search(t, <<26178, 38291>>)                \* r"(\d+)時間"
    IN  IF m_ge_d # None THEN <<">=", m_ge_d[1] \o <<26085>>>>
        ELSE IF m_le_d # None THEN <<"<=", m_le_d[1] \o <<26085>>>>
        ELSE IF m_eq_d # None THEN <<"==", m_eq_d[1] \o <<26085>>>>
        ELSE IF m_ge_h # None
             THEN <<">=", m_ge_h[1] \o <<26178, 38291, 20197, 19978>>>>
        ELSE IF m_le_h # None
             THEN <<"<=", m_le_h[1] \o <<26178, 38291, 20197, 19979>>>>
        ELSE IF m_eq_h # None THEN <<"==", m_eq_h[1] \o <<26178, 38291>>>>
        ELSE <<"==", t>>

\* d[col] = (op, val) on an insertion-ordered dict: an existing key keeps its
\* place, a new key goes last
DictSet(d, col, op, val) ==
    IF \E k \in 1..Len(d) : d[k].col = col
    THEN [k \in 1..Len(d) |->
            IF d[k].col = col THEN [col |-> col, op |-> op, val |-> val] ELSE d[k]]
    ELSE Append(d, [col |-> col, op |-> op, val |-> val])

RECURSIVE TargetFrom(_, _)
\* lines 225-229: the column of the last of toks[1..k] that resolves, or None
TargetFrom(toks, k) ==
    IF k = 0 THEN None
    ELSE IF ColumnOfToken[toks[k]] # None THEN ColumnOfToken[toks[k]]
    ELSE TargetFrom(toks, k - 1)

RECURSIVE TargetFromFirst(_, _)
\* the column of the first of toks[k..] that resolves, or None
TargetFromFirst(toks, k) ==
    IF k > Len(toks) THEN None
    ELSE IF ColumnOfToken[toks[k]] # None THEN ColumnOfToken[toks[k]]
    ELSE TargetFromFirst(toks, k + 1)

\* TargetColumn with the tokens scanned forward
TargetColumnForward(toks) ==
    IF TargetFromFirst(toks, 1) # None THEN TargetFromFirst(toks, 1)
    ELSE df.columns[1]

\* lines 224-233
TargetColumn(toks) ==
    IF TargetFrom(toks, Len(toks)) # None THEN TargetFrom(toks, Len(toks))
    ELSE df.columns[1]

-----------------------------------------------------------------------------
(* apply_filters.  A table is [raised, columns, rows]: raised is TRUE when *)
(* the call ended in an exception instead of returning.                    *)

RECURSIVE SelectRows(_, _)
\* frame[mask] for a boolean mask: the rows the mask holds of, in order
SelectRows(rows, mask) ==
    IF rows = <<>> THEN <<>>
    ELSE (IF mask[1] THEN <<Head(rows)>> ELSE <<>>)
         \o SelectRows(Tail(rows), Tail(mask))

\* Series.astype(str) on a cell of a text column
AsStr(cell) == IF IsStr(cell) THEN cell ELSE <<110, 97, 110>>   \* "nan"

\* re.search(r"(\d+)", val): None, or <<float(group(1))>>
FirstNumber(val) ==
    LET m == Search(val, <<>>) IN IF m = None THEN None ELSE <<ToNumber(m[1])>>

\* lines 273-282
CheckRangeGE(r, th) ==
    LET low == r[1]
        high == r[2]
    IN  \/ low # None /\ low[1] >= th
        \/ /\ high # None
           /\ high[1] >= th
           /\ (IF low # None THEN low[1] ELSE 0) <= th

\* lines 289-294
CheckRangeLE(r, th) ==
    LET high == r[2] IN high # None /\ high[1] <= th

\* lines 303-307
CheckRangeEQ(r, x) ==
    LET low == IF r[1] = None THEN 0 ELSE r[1][1]
        high == IF r[2] = None THEN 999 ELSE r[2][1]
    IN  low <= x /\ x <= high

HasColumn(t, col) == \E k \in 1..Len(t.columns) : t.columns[k] = col

\* frame[col] at one row: the row's cell under the column label
Cell(t, row, col) == row[CHOOSE k \in 1..Len(t.columns) : t.columns[k] = col]

\* frame[frame[col].astype(str).str.contains(val)]
FilterContains(t, col, val) ==
    [t EXCEPT !.rows =
        SelectRows(t.rows, [k \in 1..Len(t.rows) |-> Contains(AsStr(Cell(t, t.rows[k], col)), val)])]

\* lines 248-259: the condition on the day count; v is compared in halves.
\* A NaN day count satisfies no comparison.  For "<=", line 256 rebinds
\* filtered to the boolean Series, and line 257 indexes that Series with the
\* column name: a KeyError.
FilterDays(t, op, val) ==
    LET m == FirstNumber(val)
        num(k) == Cell(t, t.rows[k], ColKadouNissuNum)
    IN  IF m = None THEN t
        ELSE IF op = ">="
             THEN [t EXCEPT !.rows = SelectRows(t.rows,
                     [k \in 1..Len(t.rows) |-> num(k) # None /\ num(k)[1] >= 2 * m[1]])]
        ELSE IF op = "<=" THEN [t EXCEPT !.raised = TRUE]
        ELSE IF op = "=="
             THEN [t EXCEPT !.rows = SelectRows(t.rows,
                     [k \in 1..Len(t.rows) |-> num(k) # None /\ num(k)[1] = 2 * m[1]])]
        ELSE t

\* frame[frame["稼働時間_range"].apply(check_range)].  On a frame without
\* rows, Series.apply gives an empty Series of dtype object, which
\* DataFrame.__getitem__ does not take for a boolean mask but for an (empty)
\* list of column labels: the value is a frame with no rows and no columns.
SelectByRange(t, keep) ==
    IF t.rows = <<>> THEN [t EXCEPT !.columns = <<>>]
    ELSE [t EXCEPT !.rows = SelectRows(t.rows, keep)]

\* lines 262-311: the condition on the range of hours
FilterHours(t, op, val) ==
    LET m == FirstNumber(val)
        range(k) == Cell(t, t.rows[k], ColKadouJikanRange)
    IN  IF op = ">="
        THEN IF m = None THEN t
             ELSE SelectByRange(t, [k \in 1..Len(t.rows) |-> CheckRangeGE(range(k), m[1])])
        ELSE IF op = "<="
        THEN IF m = None THEN t
             ELSE SelectByRange(t, [k \in 1..Len(t.rows) |-> CheckRangeLE(range(k), m[1])])
        ELSE IF op = "=="
        THEN IF m = None THEN t
             ELSE SelectByRange(t, [k \in 1..Len(t.rows) |-> CheckRangeEQ(range(k), m[1])])
        ELSE FilterContains(t, ColKadouJikan, val)


\* lines 243-322: one iteration of the loop over filter_dict.items()
ApplyCondition(t, c) ==
    IF t.raised THEN t
    ELSE IF ~HasColumn(t, c.col) THEN t
    ELSE IF c.col = ColKadouNissu /\ HasColumn(t, ColKadouNissuNum)
         THEN FilterDays(t, c.op, c.val)
    ELSE IF c.col = ColKadouJikan /\ HasColumn(t, ColKadouJikanRange)
         THEN FilterHours(t, c.op, c.val)
    ELSE IF c.op \in {"==", ">=", "<="} THEN FilterContains(t, c.col, c.val)
    ELSE t

RECURSIVE ApplyFrom(_, _, _)
ApplyFrom(t, d, k) ==
    IF k > Len(d) THEN t ELSE ApplyFrom(ApplyCondition(t, d[k]), d, k + 1)

\* lines 240-324: the copy of df_in, narrowed by each condition in turn
apply_filters(df_in, d) ==
    ApplyFrom([raised |-> FALSE, columns |-> df_in.columns, rows |-> df_in.rows], d, 1)

-----------------------------------------------------------------------------
(* The answers of /ask.                                                    *)

\* lines 329-370: <<text, chart>>; chart is TRUE for an encoded image, FALSE
\* for None
get_distribution_and_chart(t, column_name) ==
    IF ~HasColumn(t, column_name) THEN <<"no_such_column", FALSE>>
    ELSE IF Len(t.rows) = 0 THEN <<"no_data_for_column", FALSE>>
    ELSE IF column_name = ColKadouNissuNum THEN <<"statistics", TRUE>>
    ELSE <<"distribution", TRUE>>

\* jsonify({"answer": ..., "image": ...}).  guide: the answer holds
\* get_guide_message(), the sample questions and the list of df.columns;
\* ambiguous: the answer starts with the "may be ambiguous" notice;
\* image: TRUE for a chart, FALSE for null.
Answer(text, guide, ambiguous, image) ==
    [status |-> 200, text |-> text, guide |-> guide,
     ambiguous |-> ambiguous, image |-> image]

\* the unhandled exception of a view function: HTTP 500
ServerError ==
    [status |-> 500, text |-> "error", guide |-> FALSE,
     ambiguous |-> FALSE, image |-> FALSE]

\* Respond without the test of line 414
RespondNoEmptyCheck(t, d, target) ==
    IF ~HasColumn(df, target) THEN Answer("no_target_column", TRUE, FALSE, FALSE)
    ELSE LET r == get_distribution_and_chart(t, target)
         IN  Answer(r[1], FALSE, Len(d) = 0, r[2])

\* lines 413-433, once apply_filters has returned the table t
Respond(t, d, target) ==
    IF Len(t.rows) = 0 THEN Answer("no_data_matched", TRUE, FALSE, FALSE)
    ELSE IF ~HasColumn(df, target) THEN Answer("no_target_column", TRUE, FALSE, FALSE)
    ELSE LET r == get_distribution_and_chart(t, target)
         IN  Answer(r[1], FALSE, Len(d) = 0, r[2])

-----------------------------------------------------------------------------
(* Inputs of the direct calls of find_best_column and apply_filters.       *)

\* a column name no dataset has: "存在しない列"
ColAbsent == <<23384, 22312, 12375, 12394, 12356, 21015>>

CondColumns == {ColKadouNissu, ColKadouJikan, ColNidai, ColAbsent}
CondOps == {">=", "<=", "==", "!="}
CondVals == {
    <<53, 26085>>,                          \* "5日"
    <<50, 26085>>,                          \* "2日"
    <<56, 26178, 38291, 20197, 19978>>,     \* "8時間以上"
    <<52, 26178, 38291>>,                   \* "4時間"
    <<12511, 12461, 12469>>,                \* "ミキサ"
    <<120, 121, 122>>                       \* "xyz"
}
Conditions == [col : CondColumns, op : CondOps, val : CondVals]

RECURSIVE FilterDicts(_)
\* the dicts of at most n conditions, each on a column of its own
FilterDicts(n) ==
    IF n = 0 THEN {<<>>}
    ELSE FilterDicts(n - 1) \cup
         {Append(d, c) : d \in {e \in FilterDicts(n - 1) : Len(e) = n - 1},
                         c \in Conditions}

\* a dict holds each key once
DistinctKeys(d) == \A j, k \in 1..Len(d) : d[j].col = d[k].col => j = k

Thresholds == {<<1, 10>>, <<3, 10>>, <<4, 10>>, <<1, 2>>, <<7, 10>>, <<1, 1>>}

ResolveTexts == TokenUniverse \cup {
    <<49, 50, 26178, 38291, 20197, 19978>>,   \* "12時間以上"
    <<52, 26178, 38291>>,                     \* "4時間"
    <<29123, 36027>>,                         \* "燃費"
    <<40, 32, 41>>                            \* "( )"
}

-----------------------------------------------------------------------------
(* The service.                                                            *)

Idle ==
    /\ pc = "idle"
    /\ user_text = <<>>
    /\ tokens = <<>>
    /\ idx = 0
    /\ col_in_focus = None
    /\ filter_dict = <<>>
    /\ target_col = None
    /\ filtered = None
    /\ response = None
    /\ threshold = DefaultThreshold
    /\ best_col = None

\* the module is imported: the dataset is read and the derived columns added
Init ==
    /\ \E n \in 0..(IF MaxRows < Len(RowPool) THEN MaxRows ELSE Len(RowPool)) :
          df = LoadData(n)
    /\ Idle

\* ask(), lines 400-408: the question arrives; an empty one is answered at
\* once, any other enters parse_conditions (lines 154-173)
AskRequest ==
    /\ pc = "idle"
    /\ \E q \in Questions :
          /\ user_text' = Strip(q)
          /\ IF Strip(q) = <<>>
             THEN /\ response' = Answer("ask_what", TRUE, FALSE, FALSE)
                  /\ pc' = "done"
                  /\ tokens' = tokens
             ELSE /\ response' = response
                  /\ pc' = "scan"
                  /\ tokens' = TokensOf[q]
    /\ UNCHANGED <<df, idx, col_in_focus, filter_dict, target_col, filtered,
                   threshold, best_col>>

\* parse_conditions, lines 175-222: one iteration of the forward loop
ScanToken ==
    /\ pc = "scan"
    /\ idx < Len(tokens)
    /\ LET t == tokens[idx + 1]
           c == ColumnOfToken[t]
       IN  IF c # None
           THEN /\ col_in_focus' = c
                /\ filter_dict' = filter_dict
           ELSE IF col_in_focus # None
           THEN /\ filter_dict' = DictSet(filter_dict, col_in_focus,
                                          ConditionOf(t)[1], ConditionOf(t)[2])
                /\ col_in_focus' = None
           ELSE UNCHANGED <<col_in_focus, filter_dict>>
    /\ idx' = idx + 1
    /\ UNCHANGED <<df, pc, user_text, tokens, target_col, filtered, response,
                   threshold, best_col>>

\* parse_conditions, lines 224-235: the reverse loop, the default, the return
FindTarget ==
    /\ pc = "scan"
    /\ idx = Len(tokens)
    /\ target_col' = TargetColumn(tokens)
    /\ pc' = "filter"
    /\ UNCHANGED <<df, user_text, tokens, idx, col_in_focus, filter_dict,
                   filtered, response, threshold, best_col>>

\* ask(), line 411: apply_filters(df, filter_dict); an exception ends the
\* request with HTTP 500
Filter ==
    /\ pc = "filter"
    /\ filtered' = apply_filters(df, filter_dict)
    /\ IF filtered'.raised
       THEN response' = ServerError /\ pc' = "done"
       ELSE response' = response /\ pc' = "respond"
    /\ UNCHANGED <<df, user_text, tokens, idx, col_in_focus, filter_dict,
                   target_col, threshold, best_col>>

\* ask(), lines 413-433
SendResponse ==
    /\ pc = "respond"
    /\ response' = Respond(filtered, filter_dict, target_col)
    /\ pc' = "done"
    /\ UNCHANGED <<df, user_text, tokens, idx, col_in_focus, filter_dict,
                   target_col, filtered, threshold, best_col>>

\* a call find_best_column(text, thr)
CallFindBestColumn ==
    /\ pc = "idle"
    /\ \E text \in ResolveTexts, thr \in Thresholds :
          /\ user_text' = text
          /\ threshold' = thr
          /\ best_col' = find_best_column(text, thr)
    /\ pc' = "resolved"
    /\ UNCHANGED <<df, tokens, idx, col_in_focus, filter_dict, target_col,
                   filtered, response>>

\* CallApplyFilters with the rows dropped from df_in itself (no copy)
CallApplyFiltersInPlace ==
    /\ pc = "idle"
    /\ \E d \in {e \in FilterDicts(MaxConds) : DistinctKeys(e)} :
          /\ filter_dict' = d
          /\ filtered' = apply_filters(df, d)
          /\ df' = [columns |-> filtered'.columns, rows |-> filtered'.rows]
    /\ pc' = "applied"
    /\ UNCHANGED <<user_text, tokens, idx, col_in_focus, target_col,
                   response, threshold, best_col>>

\* a call apply_filters(df, d)
CallApplyFilters ==
    /\ pc = "idle"
    /\ \E d \in {e \in FilterDicts(MaxConds) : DistinctKeys(e)} :
          /\ filter_dict' = d
          /\ filtered' = apply_filters(df, d)
    /\ pc' = "applied"
    /\ UNCHANGED <<df, user_text, tokens, idx, col_in_focus, target_col,
                   response, threshold, best_col>>

\* the request or the call is over; df stays loaded
Return ==
    /\ pc \in {"done", "resolved", "applied"}
    /\ pc' = "idle"
    /\ user_text' = <<>>
    /\ tokens' = <<>>
    /\ idx' = 0
    /\ col_in_focus' = None
    /\ filter_dict' = <<>>
    /\ target_col' = None
    /\ filtered' = None
    /\ response' = None
    /\ threshold' = DefaultThreshold
    /\ best_col' = None
    /\ UNCHANGED df

Next ==
    \/ AskRequest
    \/ ScanToken
    \/ FindTarget
    \/ Filter
    \/ SendResponse
    \/ CallFindBestColumn
    \/ CallApplyFilters
    \/ Return

Spec == Init /\ [][Next]_vars

-----------------------------------------------------------------------------
(* Properties.                                                             *)

RECURSIVE IsSubsequence(_, _)
\* the rows of s are rows of t, in the order of t
IsSubsequence(s, t) ==
    IF s = <<>> THEN TRUE
    ELSE IF t = <<>> THEN FALSE
    ELSE IF Head(s) = Head(t) THEN IsSubsequence(Tail(s), Tail(t))
    ELSE IsSubsequence(s, Tail(t))

\* a direct call of apply_filters with a single condition has returned
AppliedOne(col) ==
    /\ pc = "applied"
    /\ Len(filter_dict) = 1
    /\ filter_dict[1].col = col
    /\ filter_dict[1].op \in {">=", "<=", "=="}

\* C1: for every condition c with an operator among >=, <=, == and every
\* dataset, apply_filters(d, {c}) returns a table whose rows are a
\* subsequence of the rows of apply_filters(d, {}).
C1_FilterNeverAddsRows ==
    \A col \in CondColumns :
        AppliedOne(col) =>
            /\ ~filtered.raised
            /\ IsSubsequence(filtered.rows, apply_filters(df, <<>>).rows)

\* the comparison the day-count condition stands for, v2 in halves
DayKeeps(v2, op, n) ==
    /\ v2 # None
    /\ \/ op = ">=" /\ v2[1] >= 2 * n
       \/ op = "<=" /\ v2[1] <= 2 * n
       \/ op = "==" /\ v2[1] = 2 * n

\* C2: a condition on the day-count column with threshold n keeps exactly
\* the rows whose numeric day value v satisfies v >= n, v <= n or v = n,
\* according to the operator.
C2_DayCountComparison ==
    (AppliedOne(ColKadouNissu) /\ FirstNumber(filter_dict[1].val) # None) =>
        /\ ~filtered.raised
        /\ filtered.rows =
             SelectRows(df.rows, [k \in 1..Len(df.rows) |->
                 DayKeeps(df.rows[k][7], filter_dict[1].op,
                          FirstNumber(filter_dict[1].val)[1])])

\* parse_conditions has returned
Parsed == pc \in {"filter", "respond"} \/ (pc = "done" /\ user_text # <<>>)

\* the positions of the tokens that resolve to a column
Resolving == {k \in 1..Len(tokens) : ColumnOfToken[tokens[k]] # None}

\* C3: the target column parse_conditions returns is a column of the
\* dataset: the column of the last token that resolves to one, and the first
\* declared column when no token resolves.
C3_TargetIsDatasetColumn ==
    Parsed =>
        /\ \E k \in 1..Len(df.columns) : df.columns[k] = target_col
        /\ target_col # None
        /\ IF Resolving = {} THEN target_col = df.columns[1]
           ELSE target_col = ColumnOfToken[tokens[Max(Resolving)]]

\* C3 with two column tokens of different columns, the last of them followed
\* by a token that resolves to no column
C3_Witness ==
    /\ pc = "filter"
    /\ \E i, j \in Resolving :
          /\ i < j
          /\ j = Max(Resolving)
          /\ j < Len(tokens)
          /\ ColumnOfToken[tokens[i]] # ColumnOfToken[tokens[j]]
          /\ target_col = ColumnOfToken[tokens[j]]

\* C4: a non-empty question none of whose tokens resolves to a column is
\* answered by the guidance that lists the columns, without a chart.
C4_NoMatchForUnresolvedQuestion ==
    (pc = "done" /\ user_text # <<>> /\ Resolving = {}) =>
        (response.guide /\ ~response.image)

\* the answer of line 416
IsEmptyResult(r) == r.text = "no_data_matched" /\ ~r.image

\* /ask has answered a question that went through apply_filters
Answered == pc = "done" /\ user_text # <<>> /\ ~filtered.raised

\* C5 as stated: conditions parsed and zero rows left give the EmptyResult
\* answer, that answer is given only for an empty filtered table, and a
\* question without any parsed condition gets another answer.
C5_EmptyResultDistinct ==
    Answered =>
        /\ (Len(filter_dict) > 0 /\ Len(filtered.rows) = 0) => IsEmptyResult(response)
        /\ IsEmptyResult(response) => Len(filtered.rows) = 0
        /\ Len(filter_dict) = 0 => ~IsEmptyResult(response)

\* C5, amended: ... and, on a dataset with at least one row, a question
\* without any parsed condition gets another answer.
C5_EmptyResultDistinctOnData ==
    Answered =>
        /\ (Len(filter_dict) > 0 /\ Len(filtered.rows) = 0) => IsEmptyResult(response)
        /\ IsEmptyResult(response) => Len(filtered.rows) = 0
        /\ (Len(filter_dict) = 0 /\ Len(df.rows) > 0) => ~IsEmptyResult(response)

\* C5: parsed conditions that no row of a populated dataset satisfies
C5_Witness ==
    /\ Answered
    /\ Len(filter_dict) > 0
    /\ Len(df.rows) > 0
    /\ Len(filtered.rows) = 0
    /\ IsEmptyResult(response)

\* the score of column k for the text of the call
ScoreOf(k) == calc_similarity(user_text, df.columns[k])

\* C6: find_best_column returns no match, or a column of the dataset whose
\* score is at least the threshold and the maximum over the columns, and
\* the first in declaration order of the columns of that score.
C6_BestColumnMeetsThreshold ==
    pc = "resolved" =>
        \/ best_col = None
        \/ \E k \in 1..Len(df.columns) :
              /\ df.columns[k] = best_col
              /\ ~Less(ScoreOf(k), threshold)
              /\ \A j \in 1..Len(df.columns) : ~Less(ScoreOf(k), ScoreOf(j))
              /\ \A j \in 1..(k - 1) : Less(ScoreOf(j), ScoreOf(k))

\* C6: a column is returned although a later column has the same score
C6_Witness ==
    /\ pc = "resolved"
    /\ best_col # None
    /\ \E k, j \in 1..Len(df.columns) :
          /\ df.columns[k] = best_col
          /\ k < j
          /\ ScoreOf(j) = ScoreOf(k)

\* C7: no step changes the dataset; apply_filters works on a copy.
C7_DatasetNeverMutated == [][df' = df]_vars

\* C7: apply_filters has returned fewer rows than the dataset holds
C7_Witness ==
    /\ pc \in {"applied", "respond"}
    /\ ~filtered.raised
    /\ Len(filtered.rows) < Len(df.rows)
    /\ Len(filtered.rows) > 0

\* the operator a value token stands for, by the qualifier it carries: GE
\* for "or more" (以上), LE for "or less" (以下), EQ otherwise
OrMore(t) ==
    \/ Search(t, <<26085, 20197, 19978>>) # None             \* "n日以上"
    \/ Search(t, <<26178, 38291, 20197, 19978>>) # None      \* "n時間以上"
OrLess(t) ==
    \/ Search(t, <<26085, 20197, 19979>>) # None             \* "n日以下"
    \/ Search(t, <<26178, 38291, 20197, 19979>>) # None      \* "n時間以下"
ExpectedOp(t) == IF OrMore(t) THEN ">=" ELSE IF OrLess(t) THEN "<=" ELSE "=="

\* the positions i <= idx of a value token that follows a token of column col
ValueAfter(col) ==
    {i \in 2..idx : /\ ColumnOfToken[tokens[i]] = None
                    /\ ColumnOfToken[tokens[i - 1]] = col}

\* C8: in the forward scan, the focus is the column of the token just
\* consumed when that token resolves, and empty otherwise (so it is empty
\* after every emission); filter_dict holds a condition on a column exactly
\* when a token that resolves to no column directly follows a token of that
\* column, and its operator is GE, LE or EQ by the qualifier of the last
\* such value token.
C8_FocusProtocol ==
    pc = "scan" =>
        /\ col_in_focus = (IF idx >= 1 THEN ColumnOfToken[tokens[idx]] ELSE None)
        /\ DistinctKeys(filter_dict)
        /\ \A k \in 1..Len(filter_dict) :
              /\ ValueAfter(filter_dict[k].col) # {}
              /\ filter_dict[k].col # None
              /\ filter_dict[k].op =
                    ExpectedOp(tokens[Max(ValueAfter(filter_dict[k].col))])
        /\ \A c \in {df.columns[k] : k \in 1..Len(df.columns)} :
              ValueAfter(c) # {} => \E k \in 1..Len(filter_dict) : filter_dict[k].col = c

\* C9: the duration column followed by "n hours or more" is parsed into a
\* ">=" condition on 稼働時間 with threshold n.
C9_HoursOrMoreParsed ==
    (/\ pc = "filter"
     /\ Len(tokens) = 2
     /\ tokens[1] = ColKadouJikan
     /\ Match(tokens[2], <<26178, 38291, 20197, 19978>>) # None
     /\ Len(tokens[2]) = Len(Match(tokens[2], <<26178, 38291, 20197, 19978>>)[1]) + 4) =>
        /\ Len(filter_dict) = 1
        /\ filter_dict[1].col = ColKadouJikan
        /\ filter_dict[1].op = ">="
        /\ FirstNumber(filter_dict[1].val) =
              <<ToNumber(Match(tokens[2], <<26178, 38291, 20197, 19978>>)[1])>>

\* the rows the condition on the range of hours is said to keep; an absent
\* lower bound counts as 0 and an absent upper bound as unbounded
RangeKeeps(r, op, th) ==
    LET low == IF r[1] = None THEN 0 ELSE r[1][1]
    IN  /\ r # <<None, None>>
        /\ \/ op = ">=" /\ \/ r[1] # None /\ low >= th
                           \/ r[2] # None /\ low <= th /\ th <= r[2][1]
           \/ op = "<=" /\ r[2] # None /\ r[2][1] <= th
           \/ op = "==" /\ low <= th /\ (r[2] = None \/ th <= r[2][1])

\* C10: a condition on the duration column with threshold th keeps, for
\* ">=", the rows whose lower bound is >= th or whose range straddles th;
\* for "<=", the rows whose upper bound exists and is <= th; for "==", the
\* rows whose range contains th; and never a row whose range was not parsed.
C10_RangeComparison ==
    (AppliedOne(ColKadouJikan) /\ FirstNumber(filter_dict[1].val) # None) =>
        /\ ~filtered.raised
        /\ filtered.rows =
             SelectRows(df.rows, [k \in 1..Len(df.rows) |->
                 RangeKeeps(df.rows[k][8], filter_dict[1].op,
                            FirstNumber(filter_dict[1].val)[1])])

====
